---- MODULE Spec2Model ----
(***************************************************************************)
(* Model of the ble-hci attribute server (src/src/attribute_server.rs):    *)
(* handle assignment in AttributeServer::new and the request dispatch of   *)
(* AttributeServer::do_work, with the ATT / L2CAP / ACL framing the        *)
(* responses go through.                                                   *)
(***************************************************************************)
EXTENDS Integers, Sequences, FiniteSets, TLC

VARIABLES
    services,     \* the caller-owned slice of Service records the server borrows
    constructed,  \* TRUE once AttributeServer::new has run
    polled,       \* what self.ble.poll() returned in the last do_work call
    att,          \* the ATT request the last do_work call parsed (NoAtt if none)
    trace,        \* callbacks invoked and bytes written by the last do_work call, in order
    result,       \* outcome of the last do_work call
    disc,         \* state of a discovering client (start of its next request, services seen)
    tally,        \* a peer's count of do_work calls, handled requests and responses
    to_read,      \* connector: the bytes the controller has sent and the host has not read
    written,      \* connector: the bytes the host has written
    clock,        \* connector: the last reading millis() returned
    cmd,          \* the command invocation of the HCI controller (Ble)
    pollres,      \* what the last Ble::poll returned
    codec         \* an ACL / L2CAP frame on its way through encode and parse

srvvars == <<services, constructed, polled, att, trace, result>>
hcivars == <<to_read, written, clock, cmd, pollres>>

vars == <<services, constructed, polled, att, trace, result, disc, tally,
          to_read, written, clock, cmd, pollres, codec>>

----------------------------------------------------------------------------
(* Bounds of the model *)

MaxServices == 2
MaxValueLen == 1
MaxCalls == 3
MaxCmds == 1
MaxPending == 2
MaxPayloadLen == 2

----------------------------------------------------------------------------
(* Program constants *)

U16 == 65536

PRIMARY_SERVICE_UUID16 == [kind |-> "Uuid16", v |-> 10240]   \* 0x2800
CHARACTERISTIC_UUID16 == [kind |-> "Uuid16", v |-> 10243]    \* 0x2803

ATT_READABLE == 2
ATT_WRITEABLE == 8

ATT_READ_BY_GROUP_TYPE_REQUEST_OPCODE == 16     \* 0x10
ATT_READ_BY_GROUP_TYPE_RESPONSE_OPCODE == 17    \* 0x11
ATT_READ_BY_TYPE_REQUEST_OPCODE == 8            \* 0x08
ATT_READ_BY_TYPE_RESPONSE_OPCODE == 9           \* 0x09
ATT_READ_REQUEST_OPCODE == 10                   \* 0x0a
ATT_READ_RESPONSE_OPCODE == 11                  \* 0x0b
ATT_WRITE_REQUEST_OPCODE == 18                  \* 0x12
ATT_WRITE_RESPONSE_OPCODE == 19                 \* 0x13
ATT_ERROR_RESPONSE_OPCODE == 1                  \* 0x01
AttributeNotFound == 10                         \* 0x0a

ACL_PACKET_TYPE == 2                            \* 0x02
L2CAP_ATT_CHANNEL == 4
FirstAutoFlushable == 2                         \* boundary flag 0b10
NoBroadcast == 0

----------------------------------------------------------------------------
(* Bytes and buffers *)

LoByte(x) == x % 256
HiByte(x) == (x \div 256) % 256
U16LE(x) == <<LoByte(x), HiByte(x)>>
FromLE(lo, hi) == lo + 256 * hi

Reverse(s) == [i \in 1..Len(s) |-> s[Len(s) + 1 - i]]

Min(S) == CHOOSE x \in S : \A y \in S : x <= y
Max(S) == CHOOSE x \in S : \A y \in S : x >= y

(* Uuid::encode: a Uuid16 is its two bytes little-endian, a Uuid128 its    *)
(* sixteen bytes in reverse order.                                         *)
uuid_encode(u) ==
    IF u.kind = "Uuid16" THEN U16LE(u.v) ELSE Reverse(u.v)

----------------------------------------------------------------------------
(* ATT, L2CAP and ACL codecs *)

RECURSIVE group_entries(_)
group_entries(list) ==
    IF list = <<>> THEN <<>>
    ELSE U16LE(Head(list).start) \o U16LE(Head(list).end)
         \o uuid_encode(Head(list).uuid) \o group_entries(Tail(list))

(* [0x11, entry length, (start, end, uuid)...] *)
att_encode_read_by_group_type_response(attribute_list) ==
    <<ATT_READ_BY_GROUP_TYPE_RESPONSE_OPCODE,
      IF attribute_list = <<>> THEN 0
      ELSE 4 + Len(uuid_encode(Head(attribute_list).uuid))>>
    \o group_entries(attribute_list)

RECURSIVE payload_entries(_)
payload_entries(list) ==
    IF list = <<>> THEN <<>>
    ELSE U16LE(Head(list).handle) \o Head(list).value \o payload_entries(Tail(list))

(* [0x09, entry length, (handle, value)...] *)
att_encode_read_by_type_response(attribute_list) ==
    <<ATT_READ_BY_TYPE_RESPONSE_OPCODE,
      IF attribute_list = <<>> THEN 0
      ELSE 2 + Len(Head(attribute_list).value)>>
    \o payload_entries(attribute_list)

(* [0x0b, value...] *)
att_encode_read_response(payload) == <<ATT_READ_RESPONSE_OPCODE>> \o payload

(* [0x13] *)
att_encode_write_response == <<ATT_WRITE_RESPONSE_OPCODE>>

(* [0x01, request opcode, handle LE, error code] *)
att_encode_error_response(opcode, handle, code) ==
    <<ATT_ERROR_RESPONSE_OPCODE, opcode>> \o U16LE(handle) \o <<code>>

(* [len LE, channel 4 LE, payload...] *)
encode_l2cap(att_data) ==
    U16LE(Len(att_data)) \o U16LE(L2CAP_ATT_CHANNEL) \o att_data

(* [0x02, handle and flags LE, len LE, payload...]; the flags word packs   *)
(* a 12-bit handle, the boundary flag in bits 12-13 and the broadcast flag *)
(* in bits 14-15.                                                          *)
encode_acl_packet(handle, boundary_flag, bc_flag, payload) ==
    <<ACL_PACKET_TYPE>>
    \o U16LE((handle % 4096) + 4096 * boundary_flag + 16384 * bc_flag)
    \o U16LE(Len(payload)) \o payload

(* parse_l2cap taking whatever follows the header as the payload. *)
parse_l2cap_any_length(data) ==
    IF Len(data) < 4
    THEN [err |-> TRUE, payload |-> <<>>]
    ELSE [err |-> FALSE, payload |-> SubSeq(data, 5, Len(data))]

(* The inverse of encode_l2cap; fails when the declared length disagrees   *)
(* with the bytes present.                                                 *)
parse_l2cap(data) ==
    IF Len(data) < 4 \/ FromLE(data[1], data[2]) # Len(data) - 4
    THEN [err |-> TRUE, payload |-> <<>>]
    ELSE [err |-> FALSE, payload |-> SubSeq(data, 5, Len(data))]

(* Uuid from its wire bytes: 2 bytes are a Uuid16, 16 bytes a Uuid128. *)
uuid_parse(bytes) ==
    IF Len(bytes) = 2 THEN [kind |-> "Uuid16", v |-> FromLE(bytes[1], bytes[2])]
    ELSE [kind |-> "Uuid128", v |-> Reverse(bytes)]

NoAtt == [op |-> "none"]

(* parse_att dispatches on the opcode byte to the four request shapes. *)
parse_att(payload) ==
    IF payload = <<>> THEN [err |-> TRUE, att |-> NoAtt]
    ELSE IF payload[1] = ATT_READ_BY_GROUP_TYPE_REQUEST_OPCODE
            /\ Len(payload) \in {7, 21} THEN
        [err |-> FALSE,
         att |-> [op |-> "ReadByGroupTypeReq",
                  start |-> FromLE(payload[2], payload[3]),
                  end |-> FromLE(payload[4], payload[5]),
                  group_type |-> uuid_parse(SubSeq(payload, 6, Len(payload)))]]
    ELSE IF payload[1] = ATT_READ_BY_TYPE_REQUEST_OPCODE
            /\ Len(payload) \in {7, 21} THEN
        [err |-> FALSE,
         att |-> [op |-> "ReadByTypeReq",
                  start |-> FromLE(payload[2], payload[3]),
                  end |-> FromLE(payload[4], payload[5]),
                  attribute_type |-> uuid_parse(SubSeq(payload, 6, Len(payload)))]]
    ELSE IF payload[1] = ATT_READ_REQUEST_OPCODE /\ Len(payload) = 3 THEN
        [err |-> FALSE,
         att |-> [op |-> "ReadReq", handle |-> FromLE(payload[2], payload[3])]]
    ELSE IF payload[1] = ATT_WRITE_REQUEST_OPCODE /\ Len(payload) >= 3 THEN
        [err |-> FALSE,
         att |-> [op |-> "WriteReq", handle |-> FromLE(payload[2], payload[3]),
                  data |-> SubSeq(payload, 4, Len(payload))]]
    ELSE [err |-> TRUE, att |-> NoAtt]

----------------------------------------------------------------------------
(* Service and AttributeServer::new *)

(* Service::new: the three handles start at 0. *)
Service_new(uuid, permissions) ==
    [uuid |-> uuid, permissions |-> permissions,
     start_handle |-> 0, end_handle |-> 0, characteristics_handle |-> 0]

(* AttributeServer::new with current_handle advanced by 2 per service. *)
RECURSIVE new_loop_step2(_, _, _)
new_loop_step2(svcs, i, current_handle) ==
    IF i > Len(svcs) THEN svcs
    ELSE new_loop_step2([svcs EXCEPT ![i].start_handle = current_handle,
                                     ![i].end_handle = (current_handle + 2) % U16,
                                     ![i].characteristics_handle = (current_handle + 2) % U16],
                        i + 1, (current_handle + 2) % U16)

(* AttributeServer::new with current_handle starting at 0. *)
RECURSIVE new_loop_from0(_, _, _)
new_loop_from0(svcs, i, current_handle) ==
    IF i > Len(svcs) THEN svcs
    ELSE new_loop_from0([svcs EXCEPT ![i].start_handle = current_handle,
                                     ![i].end_handle = (current_handle + 2) % U16,
                                     ![i].characteristics_handle = (current_handle + 2) % U16],
                        i + 1, (current_handle + 3) % U16)

(* The loop of AttributeServer::new from service index i on; handles are   *)
(* u16.                                                                    *)
RECURSIVE new_loop(_, _, _)
new_loop(svcs, i, current_handle) ==
    IF i > Len(svcs) THEN svcs
    ELSE new_loop([svcs EXCEPT ![i].start_handle = current_handle,
                               ![i].end_handle = (current_handle + 2) % U16,
                               ![i].characteristics_handle = (current_handle + 2) % U16],
                  i + 1, (current_handle + 3) % U16)

AttributeServer_new_from0(svcs) == new_loop_from0(svcs, 1, 0)

AttributeServer_new_step2(svcs) == new_loop_step2(svcs, 1, 1)

(* The services as AttributeServer::new leaves them. *)
AttributeServer_new(svcs) == new_loop(svcs, 1, 1)

----------------------------------------------------------------------------
(* Events of one do_work call, in the order they happen *)

ReadCall(i, answer) == [ev |-> "read", svc |-> i, data |-> answer]
WriteCall(i, data) == [ev |-> "write", svc |-> i, data |-> data]
Tx(bytes) == [ev |-> "tx", svc |-> 0, data |-> bytes]

(* write_att sending on ACL handle 0x0001. *)
write_att_handle1(data) ==
    Tx(encode_acl_packet(1, FirstAutoFlushable, NoBroadcast, encode_l2cap(data)))

(* write_att: L2CAP, then ACL with handle 0x0000, then the transport. *)
write_att(data) ==
    Tx(encode_acl_packet(0, FirstAutoFlushable, NoBroadcast, encode_l2cap(data)))

Done(tr) == [result |-> "Ok", trace |-> tr]
Panic == [result |-> "panic", trace |-> <<>>]

(* The range rule with a strict comparison on the start handle. *)
InRange_strict(svcs, start, end) ==
    {i \in 1..Len(svcs) : svcs[i].start_handle > start /\ svcs[i].end_handle <= end}

(* The services the range rule of the two discovery handlers accepts. *)
InRange(svcs, start, end) ==
    {i \in 1..Len(svcs) : svcs[i].start_handle >= start /\ svcs[i].end_handle <= end}

----------------------------------------------------------------------------
(* The request handlers *)

(* handle_read_by_group_type_req answering with the last match. *)
handle_read_by_group_type_req_last(svcs, start, end, group_type) ==
    LET found == IF group_type = PRIMARY_SERVICE_UUID16
                 THEN InRange(svcs, start, end) ELSE {}
    IN  IF found # {}
        THEN LET service == svcs[Max(found)]
                 attribute_list == <<[start |-> service.start_handle,
                                      end |-> service.end_handle,
                                      uuid |-> group_type]>>
             IN  Done(<<write_att(att_encode_read_by_group_type_response(attribute_list))>>)
        ELSE Done(<<write_att(att_encode_error_response(
                        ATT_READ_BY_GROUP_TYPE_REQUEST_OPCODE, start, AttributeNotFound))>>)

(* handle_read_by_group_type_req with the error naming the end handle. *)
handle_read_by_group_type_req_errend(svcs, start, end, group_type) ==
    LET found == IF group_type = PRIMARY_SERVICE_UUID16
                 THEN InRange(svcs, start, end) ELSE {}
    IN  IF found # {}
        THEN LET service == svcs[Min(found)]
                 attribute_list == <<[start |-> service.start_handle,
                                      end |-> service.end_handle,
                                      uuid |-> group_type]>>
             IN  Done(<<write_att(att_encode_read_by_group_type_response(attribute_list))>>)
        ELSE Done(<<write_att(att_encode_error_response(
                        ATT_READ_BY_GROUP_TYPE_REQUEST_OPCODE, end, AttributeNotFound))>>)

(* handle_read_by_group_type_req without the return after the response. *)
handle_read_by_group_type_req_no_return(svcs, start, end, group_type) ==
    LET found == IF group_type = PRIMARY_SERVICE_UUID16
                 THEN InRange(svcs, start, end) ELSE {}
        error == write_att(att_encode_error_response(
                     ATT_READ_BY_GROUP_TYPE_REQUEST_OPCODE, start, AttributeNotFound))
    IN  IF found # {}
        THEN LET service == svcs[Min(found)]
                 attribute_list == <<[start |-> service.start_handle,
                                      end |-> service.end_handle,
                                      uuid |-> group_type]>>
             IN  Done(<<write_att(att_encode_read_by_group_type_response(attribute_list)),
                        error>>)
        ELSE Done(<<error>>)

handle_read_by_group_type_req(svcs, start, end, group_type) ==
    LET found == IF group_type = PRIMARY_SERVICE_UUID16
                 THEN InRange(svcs, start, end) ELSE {}
    IN  IF found # {}
        THEN LET service == svcs[Min(found)]
                 attribute_list == <<[start |-> service.start_handle,
                                      end |-> service.end_handle,
                                      uuid |-> group_type]>>
             IN  Done(<<write_att(att_encode_read_by_group_type_response(attribute_list))>>)
        ELSE Done(<<write_att(att_encode_error_response(
                        ATT_READ_BY_GROUP_TYPE_REQUEST_OPCODE, start, AttributeNotFound))>>)

(* handle_read_by_type_req with the entry at start_handle. *)
handle_read_by_type_req_at_start(svcs, start, end, attribute_type) ==
    LET found == IF attribute_type = CHARACTERISTIC_UUID16
                 THEN InRange(svcs, start, end) ELSE {}
    IN  IF found # {}
        THEN LET service == svcs[Min(found)]
                 data == <<service.permissions,
                           LoByte(service.characteristics_handle),
                           HiByte(service.characteristics_handle)>>
                         \o uuid_encode(service.uuid)
                 attribute_list == <<[handle |-> service.start_handle,
                                      value |-> data]>>
             IN  Done(<<write_att(att_encode_read_by_type_response(attribute_list))>>)
        ELSE Done(<<write_att(att_encode_error_response(
                        ATT_READ_BY_TYPE_REQUEST_OPCODE, start, AttributeNotFound))>>)

(* handle_read_by_type_req without the test of attribute_type. *)
handle_read_by_type_req_any_type(svcs, start, end, attribute_type) ==
    LET found == InRange(svcs, start, end)
    IN  IF found # {}
        THEN LET service == svcs[Min(found)]
                 data == <<service.permissions,
                           LoByte(service.characteristics_handle),
                           HiByte(service.characteristics_handle)>>
                         \o uuid_encode(service.uuid)
                 attribute_list == <<[handle |-> (service.start_handle + 1) % U16,
                                      value |-> data]>>
             IN  Done(<<write_att(att_encode_read_by_type_response(attribute_list))>>)
        ELSE Done(<<write_att(att_encode_error_response(
                        ATT_READ_BY_TYPE_REQUEST_OPCODE, start, AttributeNotFound))>>)

(* handle_read_by_type_req calling the read callback of the service it     *)
(* reports.                                                                *)
handle_read_by_type_req_reading(svcs, start, end, attribute_type) ==
    LET found == IF attribute_type = CHARACTERISTIC_UUID16
                 THEN InRange(svcs, start, end) ELSE {}
    IN  IF found # {}
        THEN LET service == svcs[Min(found)]
                 data == <<service.permissions,
                           LoByte(service.characteristics_handle),
                           HiByte(service.characteristics_handle)>>
                         \o uuid_encode(service.uuid)
                 attribute_list == <<[handle |-> (service.start_handle + 1) % U16,
                                      value |-> data]>>
             IN  Done(<<ReadCall(Min(found), <<>>),
                        write_att(att_encode_read_by_type_response(attribute_list))>>)
        ELSE Done(<<write_att(att_encode_error_response(
                        ATT_READ_BY_TYPE_REQUEST_OPCODE, start, AttributeNotFound))>>)

handle_read_by_type_req(svcs, start, end, attribute_type) ==
    LET found == IF attribute_type = CHARACTERISTIC_UUID16
                 THEN InRange(svcs, start, end) ELSE {}
    IN  IF found # {}
        THEN LET service == svcs[Min(found)]
                 data == <<service.permissions,
                           LoByte(service.characteristics_handle),
                           HiByte(service.characteristics_handle)>>
                         \o uuid_encode(service.uuid)
                 attribute_list == <<[handle |-> (service.start_handle + 1) % U16,
                                      value |-> data]>>
             IN  Done(<<write_att(att_encode_read_by_type_response(attribute_list))>>)
        ELSE Done(<<write_att(att_encode_error_response(
                        ATT_READ_BY_TYPE_REQUEST_OPCODE, start, AttributeNotFound))>>)

(* handle_read_req looking the handle up among the start handles. *)
handle_read_req_by_start(svcs, handle, answer) ==
    LET found == {i \in 1..Len(svcs) : svcs[i].start_handle = handle}
    IN  IF found # {}
        THEN Done(<<ReadCall(Min(found), answer),
                    write_att(att_encode_read_response(answer))>>)
        ELSE Panic

(* answer is what the read callback of the matching service returns. *)
handle_read_req(svcs, handle, answer) ==
    LET found == {i \in 1..Len(svcs) : svcs[i].characteristics_handle = handle}
    IN  IF found # {}
        THEN Done(<<ReadCall(Min(found), answer),
                    write_att(att_encode_read_response(answer))>>)
        ELSE Panic

(* handle_write_req acknowledging the write before the callback runs. *)
handle_write_req_reply_first(svcs, handle, data) ==
    LET found == {i \in 1..Len(svcs) : svcs[i].characteristics_handle = handle}
    IN  IF found # {}
        THEN Done(<<write_att(att_encode_write_response),
                    WriteCall(Min(found), data)>>)
        ELSE Panic

(* handle_write_req handing the callback an empty buffer. *)
handle_write_req_no_data(svcs, handle, data) ==
    LET found == {i \in 1..Len(svcs) : svcs[i].characteristics_handle = handle}
    IN  IF found # {}
        THEN Done(<<WriteCall(Min(found), <<>>),
                    write_att(att_encode_write_response)>>)
        ELSE Panic

handle_write_req(svcs, handle, data) ==
    LET found == {i \in 1..Len(svcs) : svcs[i].characteristics_handle = handle}
    IN  IF found # {}
        THEN Done(<<WriteCall(Min(found), data),
                    write_att(att_encode_write_response)>>)
        ELSE Panic

(* The match on the parsed request in do_work. *)
dispatch(svcs, packet, answer) ==
    IF packet.op = "ReadByGroupTypeReq"
    THEN handle_read_by_group_type_req(svcs, packet.start, packet.end, packet.group_type)
    ELSE IF packet.op = "ReadByTypeReq"
    THEN handle_read_by_type_req(svcs, packet.start, packet.end, packet.attribute_type)
    ELSE IF packet.op = "ReadReq"
    THEN handle_read_req(svcs, packet.handle, answer)
    ELSE handle_write_req(svcs, packet.handle, packet.data)

----------------------------------------------------------------------------
(* Inputs: service definitions, inbound packets, callback answers *)

TestUuid128 == [kind |-> "Uuid128",
                v |-> <<201, 21, 21, 150, 84, 86, 100, 179,
                        56, 69, 38, 93, 241, 98, 106, 168>>]
ThermometerUuid16 == [kind |-> "Uuid16", v |-> 6153]          \* 0x1809
OtherUuid16 == [kind |-> "Uuid16", v |-> 10242]               \* 0x2802

ServiceUuids == {TestUuid128, ThermometerUuid16}
Permissions == {ATT_READABLE, ATT_WRITEABLE, ATT_READABLE + ATT_WRITEABLE}

(* Every list of up to MaxServices services over the uuids and permission  *)
(* bits above, and the lists over two of these definitions that the        *)
(* request dispatch is explored with.                                      *)
AllServiceDefs == {Service_new(u, p) : u \in ServiceUuids, p \in Permissions}
AllServiceLists == UNION {[1..n -> AllServiceDefs] : n \in 0..MaxServices}
ServiceDefs == {Service_new(TestUuid128, ATT_READABLE + ATT_WRITEABLE),
                Service_new(ThermometerUuid16, ATT_READABLE)}
ServiceLists == UNION {[1..n -> ServiceDefs] : n \in 0..MaxServices}

(* Handles a request can name: every handle the server assigns, the one    *)
(* below and the one above them, and 0xffff.  End handles: the last two    *)
(* handles of every service, and 0xffff.                                   *)
HandleVals == 0..(3 * MaxServices + 1) \cup {U16 - 1}
EndVals == {3 * i - 1 : i \in 1..MaxServices} \cup {3 * i : i \in 1..MaxServices}
           \cup {U16 - 1}
RequestUuids == {PRIMARY_SERVICE_UUID16, CHARACTERISTIC_UUID16, OtherUuid16}
ValueBytes == {171, 255}
Values == UNION {[1..n -> ValueBytes] : n \in 0..MaxValueLen}

(* The wire bytes of the four requests, as a peer sends them. *)
ReadByGroupTypeReq(start, end, group_type) ==
    <<ATT_READ_BY_GROUP_TYPE_REQUEST_OPCODE>>
    \o U16LE(start) \o U16LE(end) \o uuid_encode(group_type)
ReadByTypeReq(start, end, attribute_type) ==
    <<ATT_READ_BY_TYPE_REQUEST_OPCODE>>
    \o U16LE(start) \o U16LE(end) \o uuid_encode(attribute_type)
ReadReq(handle) == <<ATT_READ_REQUEST_OPCODE>> \o U16LE(handle)
WriteReq(handle, data) == <<ATT_WRITE_REQUEST_OPCODE>> \o U16LE(handle) \o data

AttRequests ==
    {ReadByGroupTypeReq(s, e, u) : s \in HandleVals, e \in EndVals, u \in RequestUuids}
    \cup {ReadByTypeReq(s, e, u) : s \in HandleVals, e \in EndVals, u \in RequestUuids}
    \cup {ReadReq(h) : h \in HandleVals}
    \cup {WriteReq(h, d) : h \in HandleVals, d \in Values}
    \cup {<<2, 1, 0>>, <<11, 3, 0>>, <<82, 3, 0, 171>>}   \* opcodes parse_att does not know

(* What ble.poll() can return: nothing, an event, or an ACL packet whose    *)
(* payload is an L2CAP frame (two of them with a wrong length field).       *)
PollNone == [kind |-> "None", data |-> <<>>]
PollEvent == [kind |-> "Event", data |-> <<>>]
AsyncData(data) == [kind |-> "AsyncData", data |-> data]
PollResults ==
    {PollNone, PollEvent}
    \cup {AsyncData(encode_l2cap(a)) : a \in AttRequests}
    \cup {AsyncData(<<9, 0, 4, 0, 10, 3, 0>>), AsyncData(<<1, 0, 4, 0, 10, 3, 0>>)}

----------------------------------------------------------------------------
(* The discovering peer of the two-services test *)

(* The ATT PDU inside a written ACL packet: 5 bytes of ACL header and 4 of *)
(* L2CAP header precede it.                                                *)
AttOf(bytes) == SubSeq(bytes, 10, Len(bytes))

Written(tr) == SelectSeq(tr, LAMBDA e : e.ev = "tx")

(* The peer reads the response: a group-type entry moves its start behind  *)
(* the returned end handle, an error response ends the discovery.          *)
discover_next(d, tr) ==
    LET pdu == AttOf(Written(tr)[1].data)
    IN  IF Written(tr) # <<>> /\ pdu[1] = ATT_READ_BY_GROUP_TYPE_RESPONSE_OPCODE
        THEN [start |-> (FromLE(pdu[5], pdu[6]) + 1) % U16,
              found |-> Append(d.found, <<FromLE(pdu[3], pdu[4]), FromLE(pdu[5], pdu[6])>>),
              done |-> FALSE]
        ELSE [d EXCEPT !.done = TRUE]

----------------------------------------------------------------------------
(* The state machine *)

(* No command has been invoked, nothing polled, no frame in the codecs. *)
CmdIdle == [pc |-> "idle", opcode |-> 0, readings |-> <<>>, consumed |-> <<>>,
            outcome |-> "none", status |-> 0, log |-> <<>>]
HciNone == [kind |-> "None"]
NoAcl == [err |-> TRUE, handle |-> 0, boundary_flag |-> 0, bc_flag |-> 0, data |-> <<>>]
NoL2cap == [err |-> TRUE, payload |-> <<>>]
CodecIdle == [stage |-> "idle", origin |-> "none", damage |-> "none",
              handle |-> 0, boundary_flag |-> 0, bc_flag |-> 0, payload |-> <<>>,
              bytes |-> <<>>, acl |-> NoAcl, l2cap |-> NoL2cap, out |-> <<>>]

(* Before AttributeServer::new: the services as Service::new built them. *)
InitWith(lists) ==
    /\ services \in lists
    /\ constructed = FALSE
    /\ polled = PollNone
    /\ att = NoAtt
    /\ trace = <<>>
    /\ result = "none"
    /\ disc = [start |-> 1, found |-> <<>>, done |-> FALSE]
    /\ tally = [calls |-> 0, handled |-> 0, responses |-> 0]
    /\ to_read = <<>>
    /\ written = <<>>
    /\ clock = 0
    /\ cmd = CmdIdle
    /\ pollres = HciNone
    /\ codec = CodecIdle

Init == InitWith(ServiceLists)

InitDiscover == InitWith(AllServiceLists)

(* AttributeServer::new *)
New ==
    /\ ~constructed
    /\ services' = AttributeServer_new(services)
    /\ constructed' = TRUE
    /\ UNCHANGED <<polled, att, trace, result, disc, tally, hcivars, codec>>

(* The match of do_work on what poll returned: the request parsed, the     *)
(* events of the call and its result.                                      *)
do_work_match(svcs, p, answer) ==
    IF p.kind # "AsyncData"
    THEN [att |-> NoAtt, trace |-> <<>>, result |-> "Ok"]
    ELSE LET l2cap_packet == parse_l2cap(p.data)
         IN  IF l2cap_packet.err
             THEN [att |-> NoAtt, trace |-> <<>>, result |-> "L2capError"]
             ELSE LET packet == parse_att(l2cap_packet.payload)
                  IN  IF packet.err
                      THEN [att |-> NoAtt, trace |-> <<>>, result |-> "AttError"]
                      ELSE LET out == dispatch(svcs, packet.att, answer)
                           IN  [att |-> packet.att, trace |-> out.trace,
                                result |-> out.result]

(* do_work answering a PDU that parse_att rejects with an error response. *)
do_work_reply_on_error(p, answer) ==
    /\ constructed
    /\ result # "panic"
    /\ polled' = p
    /\ IF p.kind # "AsyncData"
       THEN att' = NoAtt /\ trace' = <<>> /\ result' = "Ok"
       ELSE LET l2cap_packet == parse_l2cap(p.data)
            IN  IF l2cap_packet.err
                THEN att' = NoAtt /\ trace' = <<>> /\ result' = "L2capError"
                ELSE LET packet == parse_att(l2cap_packet.payload)
                     IN  IF packet.err
                         THEN /\ att' = NoAtt
                              /\ trace' = <<write_att(att_encode_error_response(
                                               l2cap_packet.payload[1], 0, AttributeNotFound))>>
                              /\ result' = "AttError"
                         ELSE LET out == dispatch(services, packet.att, answer)
                              IN  /\ att' = packet.att
                                  /\ trace' = out.trace
                                  /\ result' = out.result
    /\ UNCHANGED <<services, constructed, hcivars, codec>>

(* do_work dropping the error of parse_att. *)
do_work_ignore_att_error(p, answer) ==
    /\ constructed
    /\ result # "panic"
    /\ polled' = p
    /\ IF p.kind # "AsyncData"
       THEN att' = NoAtt /\ trace' = <<>> /\ result' = "Ok"
       ELSE LET l2cap_packet == parse_l2cap(p.data)
            IN  IF l2cap_packet.err
                THEN att' = NoAtt /\ trace' = <<>> /\ result' = "L2capError"
                ELSE LET packet == parse_att(l2cap_packet.payload)
                     IN  IF packet.err
                         THEN att' = NoAtt /\ trace' = <<>> /\ result' = "Ok"
                         ELSE LET out == dispatch(services, packet.att, answer)
                              IN  /\ att' = packet.att
                                  /\ trace' = out.trace
                                  /\ result' = out.result
    /\ UNCHANGED <<services, constructed, hcivars, codec>>

(* do_work assigning the handles anew after a frame it could not parse. *)
do_work_reassign(p, answer) ==
    /\ constructed
    /\ result # "panic"
    /\ polled' = p
    /\ LET out == do_work_match(services, p, answer)
       IN  /\ att' = out.att /\ trace' = out.trace /\ result' = out.result
           /\ services' = IF out.result = "L2capError"
                          THEN new_loop(services, 1, 3 * Len(services) + 1)
                          ELSE services
    /\ UNCHANGED <<constructed, hcivars, codec>>

(* One call of do_work, given what poll returns and what a read callback   *)
(* would answer.  After a panic the program has aborted.                   *)
do_work(p, answer) ==
    /\ constructed
    /\ result # "panic"
    /\ polled' = p
    /\ LET out == do_work_match(services, p, answer)
       IN  att' = out.att /\ trace' = out.trace /\ result' = out.result
    /\ UNCHANGED <<services, constructed, hcivars, codec>>

(* The answers a read callback can give matter to a ReadReq only. *)
IsReadReq(p) ==
    /\ p.kind = "AsyncData"
    /\ Len(p.data) > 4
    /\ p.data[5] = ATT_READ_REQUEST_OPCODE

DoWork ==
    \E p \in PollResults :
        \E answer \in (IF IsReadReq(p) THEN Values ELSE {<<>>}) :
            do_work(p, answer) /\ UNCHANGED <<disc, tally>>

(* The peer sends its next discovery request and reads the response. *)
Discover ==
    /\ ~disc.done
    /\ Len(disc.found) <= MaxServices
    /\ do_work(AsyncData(encode_l2cap(
           ReadByGroupTypeReq(disc.start, U16 - 1, PRIMARY_SERVICE_UUID16))), <<>>)
    /\ disc' = discover_next(disc, trace')
    /\ UNCHANGED tally

(* The packets of the counting peer: nothing, an event, a frame with a     *)
(* wrong length, an unknown opcode, and requests of the four kinds, some   *)
(* of them for handles no service has.                                     *)
TallyPolls ==
    {PollNone, PollEvent, AsyncData(<<9, 0, 4, 0, 10, 3, 0>>)}
    \cup {AsyncData(encode_l2cap(a)) :
             a \in {<<82, 3, 0, 171>>,
                    ReadByGroupTypeReq(1, U16 - 1, PRIMARY_SERVICE_UUID16),
                    ReadByGroupTypeReq(3, U16 - 1, PRIMARY_SERVICE_UUID16),
                    ReadByTypeReq(1, 3, OtherUuid16),
                    ReadByTypeReq(1, 3, CHARACTERISTIC_UUID16),
                    ReadReq(3), ReadReq(1), WriteReq(3, <<171>>), WriteReq(6, <<>>)}}

(* One do_work call that a peer counts: the call, the request if it was    *)
(* parsed and its handler returned, and the packets written.               *)
Exchange ==
    /\ tally.calls < MaxCalls
    /\ \E p \in TallyPolls :
           \E answer \in (IF IsReadReq(p) THEN Values ELSE {<<>>}) :
               do_work(p, answer)
    /\ tally' = [calls |-> tally.calls + 1,
                 handled |-> tally.handled
                             + (IF att' # NoAtt /\ result' = "Ok" THEN 1 ELSE 0),
                 responses |-> tally.responses + Len(Written(trace'))]
    /\ UNCHANGED disc

Next == New \/ DoWork

Spec == Init /\ [][Next]_vars

NextDiscover == New \/ Discover

SpecDiscover == InitDiscover /\ [][NextDiscover]_vars

NextTally == New \/ Exchange

SpecTally == Init /\ [][NextTally]_vars

----------------------------------------------------------------------------
(* The HCI controller (Ble): commands, events, poll *)

TIMEOUT_MILLIS == 1000

(* CommandHeader::from_ogf_ocf: a 6-bit group field above a 10-bit command *)
(* field.                                                                  *)
from_ogf_ocf(ogf, ocf) == ogf * 1024 + ocf

Reset == [name |-> "Reset", opcode |-> from_ogf_ocf(3, 3), params |-> <<>>]
LeSetAdvertiseEnable ==
    [name |-> "LeSetAdvertiseEnable", opcode |-> from_ogf_ocf(8, 10), params |-> <<1>>]
Commands == {Reset, LeSetAdvertiseEnable}

(* [0x01, opcode LE, parameter length, parameters...] *)
create_command_data(command) ==
    <<1>> \o U16LE(command.opcode) \o <<Len(command.params)>> \o command.params

(* EventType from the event code and the parameter bytes. *)
parse_event(code, p) ==
    IF code = 14 /\ Len(p) >= 3
    THEN [type |-> "CommandComplete", num_packets |-> p[1],
          opcode |-> FromLE(p[2], p[3]), data |-> SubSeq(p, 4, Len(p))]
    ELSE IF code = 5 /\ Len(p) >= 4
    THEN [type |-> "DisconnectComplete", status |-> p[1],
          handle |-> FromLE(p[2], p[3]), reason |-> p[4]]
    ELSE IF code = 19 /\ Len(p) >= 5
    THEN [type |-> "NumberOfCompletedPackets", number_of_connection_handles |-> p[1],
          connection_handles |-> FromLE(p[2], p[3]),
          completed_packets |-> FromLE(p[4], p[5])]
    ELSE [type |-> "Unknown"]

(* Ble::poll taking every byte at hand as the payload of an ACL packet. *)
poll_greedy(bytes) ==
    IF bytes = <<>> THEN [res |-> HciNone, rest |-> bytes]
    ELSE IF bytes[1] = 4 /\ Len(bytes) >= 3 /\ Len(bytes) >= 3 + bytes[3]
    THEN [res |-> [kind |-> "Event",
                   event |-> parse_event(bytes[2], SubSeq(bytes, 4, 3 + bytes[3]))],
          rest |-> SubSeq(bytes, 4 + bytes[3], Len(bytes))]
    ELSE IF bytes[1] = ACL_PACKET_TYPE /\ Len(bytes) >= 5
    THEN LET w == FromLE(bytes[2], bytes[3])
         IN  [res |-> [kind |-> "AsyncData", handle |-> w % 4096,
                       boundary_flag |-> (w \div 4096) % 4, bc_flag |-> w \div 16384,
                       data |-> SubSeq(bytes, 6, Len(bytes))],
              rest |-> <<>>]
    ELSE [res |-> HciNone, rest |-> bytes]

(* Ble::poll on the bytes the connector holds: the result and the bytes    *)
(* left.  No byte: nothing.  0x04: [0x04, code, length, parameters] is an  *)
(* Event.  0x02: [0x02, handle and flags LE, length LE, payload] is        *)
(* AsyncData.                                                              *)
poll(bytes) ==
    IF bytes = <<>> THEN [res |-> HciNone, rest |-> bytes]
    ELSE IF bytes[1] = 4 /\ Len(bytes) >= 3 /\ Len(bytes) >= 3 + bytes[3]
    THEN [res |-> [kind |-> "Event",
                   event |-> parse_event(bytes[2], SubSeq(bytes, 4, 3 + bytes[3]))],
          rest |-> SubSeq(bytes, 4 + bytes[3], Len(bytes))]
    ELSE IF bytes[1] = ACL_PACKET_TYPE /\ Len(bytes) >= 5
            /\ Len(bytes) >= 5 + FromLE(bytes[4], bytes[5])
    THEN LET w == FromLE(bytes[2], bytes[3])
             len == FromLE(bytes[4], bytes[5])
         IN  [res |-> [kind |-> "AsyncData", handle |-> w % 4096,
                       boundary_flag |-> (w \div 4096) % 4, bc_flag |-> w \div 16384,
                       data |-> SubSeq(bytes, 6, 5 + len)],
              rest |-> SubSeq(bytes, 6 + len, Len(bytes))]
    ELSE [res |-> HciNone, rest |-> bytes]

(* The wait loop completing on any CommandComplete, whatever its opcode. *)
wait_step_any_opcode(cm, r, t) ==
    IF r.kind = "Event" /\ r.event.type = "CommandComplete" /\ r.event.data # <<>>
    THEN [cm EXCEPT !.pc = "done",
                    !.outcome = IF r.event.data[1] = 0 THEN "Ok" ELSE "Failed",
                    !.status = r.event.data[1]]
    ELSE [cm EXCEPT !.readings = Append(@, t),
                    !.pc = IF t > cm.readings[1] + TIMEOUT_MILLIS THEN "done" ELSE "polling",
                    !.outcome = IF t > cm.readings[1] + TIMEOUT_MILLIS
                                THEN "Timeout" ELSE "none"]

(* The wait loop reporting every failure as Failed(1). *)
wait_step_status_lost(cm, r, t) ==
    IF r.kind = "Event" /\ r.event.type = "CommandComplete"
       /\ r.event.opcode = cm.opcode /\ r.event.data # <<>>
    THEN [cm EXCEPT !.pc = "done",
                    !.outcome = IF r.event.data[1] = 0 THEN "Ok" ELSE "Failed",
                    !.status = IF r.event.data[1] = 0 THEN 0 ELSE 1]
    ELSE [cm EXCEPT !.readings = Append(@, t),
                    !.pc = IF t > cm.readings[1] + TIMEOUT_MILLIS THEN "done" ELSE "polling",
                    !.outcome = IF t > cm.readings[1] + TIMEOUT_MILLIS
                                THEN "Timeout" ELSE "none"]

(* The wait loop timing out already at TIMEOUT_MILLIS after the start. *)
wait_step_timeout_at(cm, r, t) ==
    IF r.kind = "Event" /\ r.event.type = "CommandComplete"
       /\ r.event.opcode = cm.opcode /\ r.event.data # <<>>
    THEN [cm EXCEPT !.pc = "done",
                    !.outcome = IF r.event.data[1] = 0 THEN "Ok" ELSE "Failed",
                    !.status = r.event.data[1]]
    ELSE [cm EXCEPT !.readings = Append(@, t),
                    !.pc = IF t >= cm.readings[1] + TIMEOUT_MILLIS THEN "done" ELSE "polling",
                    !.outcome = IF t >= cm.readings[1] + TIMEOUT_MILLIS
                                THEN "Timeout" ELSE "none"]

(* The wait loop without the comparison of the clock with the threshold. *)
wait_step_no_timeout(cm, r, t) ==
    IF r.kind = "Event" /\ r.event.type = "CommandComplete"
       /\ r.event.opcode = cm.opcode /\ r.event.data # <<>>
    THEN [cm EXCEPT !.pc = "done",
                    !.outcome = IF r.event.data[1] = 0 THEN "Ok" ELSE "Failed",
                    !.status = r.event.data[1]]
    ELSE [cm EXCEPT !.readings = Append(@, t)]

(* One turn of the wait loop of a command: the command completes on a      *)
(* CommandComplete with its opcode, with Failed(status) for a non-zero     *)
(* status byte; otherwise the clock is read (t) and the command times out  *)
(* when t is more than TIMEOUT_MILLIS after the first reading.             *)
wait_step(cm, r, t) ==
    IF r.kind = "Event" /\ r.event.type = "CommandComplete"
       /\ r.event.opcode = cm.opcode /\ r.event.data # <<>>
    THEN [cm EXCEPT !.pc = "done",
                    !.outcome = IF r.event.data[1] = 0 THEN "Ok" ELSE "Failed",
                    !.status = r.event.data[1]]
    ELSE [cm EXCEPT !.readings = Append(@, t),
                    !.pc = IF t > cm.readings[1] + TIMEOUT_MILLIS THEN "done" ELSE "polling",
                    !.outcome = IF t > cm.readings[1] + TIMEOUT_MILLIS
                                THEN "Timeout" ELSE "none"]

(* The readings the clock can give, and the packets the controller sends:  *)
(* CommandComplete for both commands, for Reset also with status 0xff, a   *)
(* DisconnectComplete, and an ACL packet carrying ReadReq{handle: 3}.      *)
Instants == {0, 100, 1000, 1001, 2000}
LastInstant == Max(Instants)

CommandComplete(opcode, status) == <<4, 14, 4, 5>> \o U16LE(opcode) \o <<status>>
Inbound ==
    {CommandComplete(Reset.opcode, 0), CommandComplete(Reset.opcode, 255),
     CommandComplete(LeSetAdvertiseEnable.opcode, 0)}
    \cup {<<4, 5, 4, 0, 0, 0, 19>>,
          <<2, 0, 32, 7, 0, 3, 0, 4, 0, 10, 3, 0>>}

RECURSIVE PacketCount(_)
PacketCount(bytes) ==
    IF bytes = <<>> \/ poll(bytes).rest = bytes THEN 0
    ELSE 1 + PacketCount(poll(bytes).rest)

(* The controller sends a packet. *)
Provide ==
    /\ PacketCount(to_read) < MaxPending
    /\ \E packet \in Inbound : to_read' = to_read \o packet
    /\ UNCHANGED <<written, clock, cmd, pollres>>
    /\ UNCHANGED <<srvvars, disc, tally, codec>>

(* Ble::poll, called while no command is waiting. *)
Poll ==
    /\ cmd.pc # "polling"
    /\ pollres' = poll(to_read).res
    /\ to_read' = poll(to_read).rest
    /\ UNCHANGED <<written, clock, cmd>>
    /\ UNCHANGED <<srvvars, disc, tally, codec>>

(* A command is invoked (Ble::init, Ble::cmd_set_le_advertise_enable): its *)
(* bytes are written and the clock is read for the first time.             *)
Invoke ==
    /\ cmd.pc # "polling"
    /\ Len(cmd.log) < MaxCmds
    /\ \E command \in Commands, t \in Instants :
           /\ t >= clock
           /\ t + TIMEOUT_MILLIS < LastInstant
           /\ written' = written \o create_command_data(command)
           /\ clock' = t
           /\ cmd' = [pc |-> "polling", opcode |-> command.opcode, readings |-> <<t>>,
                      consumed |-> <<>>, outcome |-> "none", status |-> 0,
                      log |-> Append(cmd.log, command)]
    /\ UNCHANGED <<to_read, pollres>>
    /\ UNCHANGED <<srvvars, disc, tally, codec>>

(* One turn of the wait loop: poll, then either finish or read the clock,  *)
(* which has advanced.                                                     *)
Wait ==
    /\ cmd.pc = "polling"
    /\ \E t \in Instants :
           /\ t > clock
           /\ LET r == poll(to_read)
                  next == wait_step(cmd, r.res, t)
              IN  /\ pollres' = r.res
                  /\ to_read' = r.rest
                  /\ cmd' = [next EXCEPT !.consumed =
                                @ \o SubSeq(to_read, 1, Len(to_read) - Len(r.rest))]
                  /\ clock' = IF next.readings # cmd.readings THEN t ELSE clock
    /\ UNCHANGED written
    /\ UNCHANGED <<srvvars, disc, tally, codec>>

NextHci == Provide \/ Poll \/ Invoke \/ Wait

SpecHci == InitWith({<<>>}) /\ [][NextHci]_vars

(* The wait loop keeps running while a command waits, and the clock of the *)
(* connector advances with every reading.                                  *)
SpecHciLive == InitWith({<<>>}) /\ [][NextHci]_vars /\ WF_vars(Wait)

----------------------------------------------------------------------------
(* The ACL and L2CAP codecs on their own: a frame is encoded or received,  *)
(* possibly damaged on the wire, parsed and encoded again.  The codecs     *)
(* keep nothing between frames, so a behaviour follows one frame.          *)

(* The inverse of encode_acl_packet; fails when the leading byte is not    *)
(* 0x02 or the declared length disagrees with the bytes present.           *)
parse_acl(bytes) ==
    IF \/ Len(bytes) < 5
       \/ bytes[1] # ACL_PACKET_TYPE
       \/ FromLE(bytes[4], bytes[5]) # Len(bytes) - 5
    THEN NoAcl
    ELSE LET w == FromLE(bytes[2], bytes[3])
         IN  [err |-> FALSE, handle |-> w % 4096,
              boundary_flag |-> (w \div 4096) % 4, bc_flag |-> w \div 16384,
              data |-> SubSeq(bytes, 6, Len(bytes))]

(* The response of the encode test: two attribute groups. *)
GroupTypeResponse == <<17, 6, 1, 0, 16, 0, 1, 24, 32, 0, 48, 0, 2, 24>>

PayloadBytes == {10, 255}
Payloads ==
    UNION {[1..n -> PayloadBytes] : n \in 0..MaxPayloadLen} \cup {GroupTypeResponse}
AclHandles == {0, 1, 4095}
Flags == 0..3

(* Frames as the controller sends them in the tests. *)
WireFrames ==
    {<<2, 0, 32, 11, 0, 7, 0, 4, 0, 16, 1, 0, 255, 255, 0, 40>>,
     <<2, 0, 32, 7, 0, 3, 0, 4, 0, 10, 3, 0>>}

Damages == {"type", "acl_len", "l2cap_len", "truncated", "extended"}

damaged(bytes, d) ==
    CASE d = "type"      -> [bytes EXCEPT ![1] = 4]
      [] d = "acl_len"   -> [bytes EXCEPT ![4] = (@ + 1) % 256]
      [] d = "l2cap_len" -> [bytes EXCEPT ![6] = (@ + 1) % 256]
      [] d = "truncated" -> SubSeq(bytes, 1, Len(bytes) - 1)
      [] d = "extended"  -> Append(bytes, 0)

EncodeFrame ==
    /\ codec.stage = "idle"
    /\ \E h \in AclHandles, bf \in Flags, bc \in Flags, p \in Payloads :
        codec' = [CodecIdle EXCEPT
                    !.stage = "encoded", !.origin = "host",
                    !.handle = h, !.boundary_flag = bf, !.bc_flag = bc, !.payload = p,
                    !.bytes = encode_acl_packet(h, bf, bc, encode_l2cap(p))]
    /\ UNCHANGED <<srvvars, disc, tally, hcivars>>

ReceiveFrame ==
    /\ codec.stage = "idle"
    /\ \E b \in WireFrames :
        codec' = [CodecIdle EXCEPT !.stage = "encoded", !.origin = "wire", !.bytes = b]
    /\ UNCHANGED <<srvvars, disc, tally, hcivars>>

Damage ==
    /\ codec.stage = "encoded"
    /\ codec.damage = "none"
    /\ \E d \in Damages :
           codec' = [codec EXCEPT !.damage = d, !.bytes = damaged(@, d)]
    /\ UNCHANGED <<srvvars, disc, tally, hcivars>>

ParseFrame ==
    /\ codec.stage = "encoded"
    /\ LET a == parse_acl(codec.bytes)
       IN  codec' = [codec EXCEPT
                       !.stage = "parsed", !.acl = a,
                       !.l2cap = IF a.err THEN NoL2cap ELSE parse_l2cap(a.data)]
    /\ UNCHANGED <<srvvars, disc, tally, hcivars>>

Reencode ==
    /\ codec.stage = "parsed"
    /\ ~codec.acl.err
    /\ ~codec.l2cap.err
    /\ codec' = [codec EXCEPT
                   !.stage = "reencoded",
                   !.out = encode_acl_packet(codec.acl.handle, codec.acl.boundary_flag,
                                             codec.acl.bc_flag,
                                             encode_l2cap(codec.l2cap.payload))]
    /\ UNCHANGED <<srvvars, disc, tally, hcivars>>

NextCodec == EncodeFrame \/ ReceiveFrame \/ Damage \/ ParseFrame \/ Reencode

SpecCodec == InitWith({<<>>}) /\ [][NextCodec]_vars

----------------------------------------------------------------------------
(* The attribute server on the connector: the controller queues packets,   *)
(* do_work polls them and writes its responses to the transport.           *)

(* What do_work sees of a poll result. *)
PollResultOf(r) ==
    IF r.kind = "AsyncData" THEN AsyncData(r.data)
    ELSE IF r.kind = "Event" THEN PollEvent
    ELSE PollNone

(* do_work polling again when the first poll returned an event. *)
do_work_poll_past_events(bytes) ==
    LET r == poll(bytes)
    IN  IF r.res.kind = "Event" THEN poll(r.rest) ELSE r

(* The poll of do_work: one call of Ble::poll. *)
do_work_poll(bytes) == poll(bytes)

RECURSIVE TxBytes(_)
(* The bytes write_att hands to the transport during one call. *)
TxBytes(tr) ==
    IF tr = <<>> THEN <<>>
    ELSE (IF Head(tr).ev = "tx" THEN Head(tr).data ELSE <<>>) \o TxBytes(Tail(tr))

(* The server of the discovery tests: one service. *)
ServedLists == {<<Service_new(TestUuid128, ATT_READABLE + ATT_WRITEABLE)>>}

(* What the controller sends: a disconnection event, requests of the four  *)
(* kinds, a request for a handle no service has, a frame with a wrong      *)
(* L2CAP length.                                                           *)
ServedInbound ==
    {<<4, 5, 4, 0, 0, 0, 19>>,
     <<2, 0, 32, 7, 0, 9, 0, 4, 0, 10, 3, 0>>}
    \cup {encode_acl_packet(0, FirstAutoFlushable, 0, encode_l2cap(a)) :
             a \in {ReadByGroupTypeReq(1, U16 - 1, PRIMARY_SERVICE_UUID16),
                    ReadByTypeReq(1, 3, CHARACTERISTIC_UUID16),
                    ReadReq(3), ReadReq(0), WriteReq(3, <<171>>)}}

(* The controller sends a packet to the server. *)
Feed ==
    /\ PacketCount(to_read) < MaxPending
    /\ \E packet \in ServedInbound : to_read' = to_read \o packet
    /\ UNCHANGED <<written, clock, cmd, pollres>>
    /\ UNCHANGED <<srvvars, disc, tally, codec>>

(* do_work on the connector; the read callback answers one byte. *)
Serve ==
    /\ constructed
    /\ result # "panic"
    /\ tally.calls < MaxCalls
    /\ LET r == do_work_poll(to_read)
           p == PollResultOf(r.res)
           out == do_work_match(services, p, <<171>>)
       IN  /\ pollres' = r.res
           /\ to_read' = r.rest
           /\ polled' = p
           /\ att' = out.att
           /\ trace' = out.trace
           /\ result' = out.result
           /\ written' = written \o TxBytes(out.trace)
           /\ tally' = [calls |-> tally.calls + 1,
                        handled |-> tally.handled
                                    + (IF out.att # NoAtt /\ out.result = "Ok" THEN 1 ELSE 0),
                        responses |-> tally.responses + Len(Written(out.trace))]
    /\ UNCHANGED <<services, constructed, clock, cmd, disc, codec>>

NextServe == New \/ Feed \/ Serve

SpecServe == InitWith(ServedLists) /\ [][NextServe]_vars

----------------------------------------------------------------------------
(* The buffers of a read response: every layer builds its bytes in a Data  *)
(* of fixed capacity, and an append beyond the capacity is fatal.          *)

DATA_CAPACITY == 128

(* Appends filling a Data with these bytes stay within its capacity. *)
Fits(bytes) == Len(bytes) <= DATA_CAPACITY

(* handle_read_req from the callback's answer on: the ATT response, the    *)
(* L2CAP frame and the ACL packet are built one from the other, and the    *)
(* packet is written; the first buffer that overflows aborts the call.     *)
frame_read_response(answer) ==
    LET pdu == att_encode_read_response(answer)
        l2cap == encode_l2cap(pdu)
        acl == encode_acl_packet(0, FirstAutoFlushable, NoBroadcast, l2cap)
    IN  IF ~Fits(pdu)
        THEN [CodecIdle EXCEPT !.stage = "overflow", !.origin = "callback",
                               !.damage = "att", !.payload = answer]
        ELSE IF ~Fits(l2cap)
        THEN [CodecIdle EXCEPT !.stage = "overflow", !.origin = "callback",
                               !.damage = "l2cap", !.payload = answer, !.bytes = pdu]
        ELSE IF ~Fits(acl)
        THEN [CodecIdle EXCEPT !.stage = "overflow", !.origin = "callback",
                               !.damage = "acl", !.payload = answer, !.bytes = l2cap]
        ELSE [CodecIdle EXCEPT !.stage = "sent", !.origin = "callback",
                               !.payload = answer, !.bytes = acl, !.out = acl]

(* What a read callback can return: a Data of any length it can hold. *)
Answers == {[k \in 1..n |-> 171] : n \in 0..DATA_CAPACITY}

(* A ReadReq for a registered handle: the callback answers and the         *)
(* response is framed.                                                     *)
ReadFramed ==
    /\ codec.stage = "idle"
    /\ \E answer \in Answers : codec' = frame_read_response(answer)
    /\ UNCHANGED <<srvvars, disc, tally, hcivars>>

NextFrame == ReadFramed

SpecFrame == InitWith(ServedLists) /\ [][NextFrame]_vars

----------------------------------------------------------------------------
(* What the properties below read off a state *)

N == Len(services)

(* The ATT PDUs the last do_work call wrote, one per transport write. *)
WrittenPdus == [k \in 1..Len(Written(trace)) |-> AttOf(Written(trace)[k].data)]

ReadCalls == SelectSeq(trace, LAMBDA e : e.ev = "read")
WriteCalls == SelectSeq(trace, LAMBDA e : e.ev = "write")

(* The services whose whole range lies in [start, end] of the request. *)
Matching == {i \in 1..N : /\ services[i].start_handle >= att.start
                          /\ services[i].end_handle <= att.end}
FirstOf(S) == CHOOSE i \in S : \A j \in S : i <= j

(* The services whose characteristics_handle is the request's handle. *)
Owners == {i \in 1..N : services[i].characteristics_handle = att.handle}

IsGroupReq == att.op = "ReadByGroupTypeReq"
IsTypeReq == att.op = "ReadByTypeReq"

----------------------------------------------------------------------------
(* C1: after AttributeServer::new, the service at 0-based index i has      *)
(* start_handle = 1 + 3*i and characteristics_handle = end_handle =        *)
(* start_handle + 2.                                                       *)
HandlesSequential ==
    constructed =>
        \A i \in 1..N :
            /\ services[i].start_handle = 1 + 3 * (i - 1)
            /\ services[i].characteristics_handle = services[i].start_handle + 2
            /\ services[i].end_handle = services[i].start_handle + 2

(* Two services constructed: (1,3,3) and (4,6,6). *)
TwoServicesConstructed ==
    /\ constructed
    /\ N >= 2
    /\ services[1].start_handle = 1 /\ services[1].end_handle = 3
    /\ services[2].start_handle = 4 /\ services[2].characteristics_handle = 6

(* C2: once the server is constructed, and after any do_work calls, the    *)
(* handle ranges of two distinct services are disjoint, every service has  *)
(* start_handle < characteristics_handle <= end_handle, and no two         *)
(* services share a characteristics_handle.                                *)
RangesDisjoint ==
    constructed =>
        /\ \A i \in 1..N : \A j \in 1..N :
               i # j => \/ services[i].end_handle < services[j].start_handle
                        \/ services[j].end_handle < services[i].start_handle
        /\ \A i \in 1..N :
               /\ services[i].start_handle < services[i].characteristics_handle
               /\ services[i].characteristics_handle <= services[i].end_handle
        /\ \A i \in 1..N : \A j \in 1..N :
               i # j => services[i].characteristics_handle
                        # services[j].characteristics_handle

(* Two services, and a do_work call that served a request has happened. *)
TwoServicesServed ==
    /\ constructed
    /\ N >= 2
    /\ result = "Ok"
    /\ att.op = "WriteReq"
    /\ WriteCalls # <<>>

(* C3: a ReadByGroupTypeReq for 0x2800 with some service inside            *)
(* [start, end] is answered by one group-type response holding exactly one *)
(* entry (start_handle, end_handle, 0x2800), that of the first such        *)
(* service in list order.                                                  *)
GroupReqFirstMatch ==
    (IsGroupReq /\ att.group_type = PRIMARY_SERVICE_UUID16 /\ Matching # {}) =>
        /\ result = "Ok"
        /\ WrittenPdus =
             << <<17, 6>>
                \o U16LE(services[FirstOf(Matching)].start_handle)
                \o U16LE(services[FirstOf(Matching)].end_handle)
                \o <<0, 40>> >>

(* A group request that two services match has been answered. *)
GroupReqTwoMatch ==
    /\ IsGroupReq
    /\ att.group_type = PRIMARY_SERVICE_UUID16
    /\ Cardinality(Matching) >= 2
    /\ result = "Ok"
    /\ Len(WrittenPdus) = 1

(* C4: a ReadByGroupTypeReq that no service matches, or whose group_type   *)
(* is not 0x2800, returns Ok and is answered by the error response         *)
(* [0x01, 0x10, start, AttributeNotFound].                                 *)
GroupReqNotFound ==
    (IsGroupReq /\ (att.group_type # PRIMARY_SERVICE_UUID16 \/ Matching = {})) =>
        /\ result = "Ok"
        /\ WrittenPdus = << <<1, 16>> \o U16LE(att.start) \o <<10>> >>

(* A 0x2800 group request whose start lies inside a service's range, with  *)
(* no service matching, has been answered.                                 *)
GroupReqStartInside ==
    /\ IsGroupReq
    /\ att.group_type = PRIMARY_SERVICE_UUID16
    /\ Matching = {}
    /\ \E i \in 1..N : /\ services[i].start_handle < att.start
                       /\ att.start <= services[i].end_handle
                       /\ att.end >= services[i].end_handle
    /\ att.start # att.end
    /\ Len(WrittenPdus) = 1

(* C5: a peer that starts at 1 and, after each group-type response, asks   *)
(* again from the returned end_handle + 1 sees the services in list order, *)
(* each once, and is then told AttributeNotFound for a start above every   *)
(* end_handle.                                                             *)
DiscoveryEnumerates ==
    constructed =>
        /\ Len(disc.found) <= N
        /\ \A k \in 1..Len(disc.found) :
               disc.found[k] = <<services[k].start_handle, services[k].end_handle>>
        /\ \A k \in 1..(Len(disc.found) - 1) : disc.found[k][2] < disc.found[k + 1][1]
        /\ disc.done =>
               /\ Len(disc.found) = N
               /\ \A i \in 1..N : services[i].end_handle < disc.start
               /\ WrittenPdus = << <<1, 16>> \o U16LE(disc.start) \o <<10>> >>

(* The discovery of two services has finished. *)
DiscoveryDone ==
    /\ constructed
    /\ N >= 2
    /\ disc.done
    /\ Len(disc.found) >= 2
    /\ disc.start = 7

(* C6: a ReadByTypeReq for 0x2803 with some service inside [start, end] is  *)
(* answered by one type response with exactly one entry, for the first     *)
(* such service: handle start_handle + 1, value [permissions,              *)
(* characteristics_handle little-endian, the service's encoded uuid].      *)
TypeReqFirstMatch ==
    (IsTypeReq /\ att.attribute_type = CHARACTERISTIC_UUID16 /\ Matching # {}) =>
        LET service == services[FirstOf(Matching)]
            value == <<service.permissions,
                       service.characteristics_handle % 256,
                       service.characteristics_handle \div 256>>
                     \o uuid_encode(service.uuid)
        IN  /\ result = "Ok"
            /\ WrittenPdus =
                 << <<9, 2 + Len(value)>> \o U16LE(service.start_handle + 1) \o value >>

(* A 0x2803 type request that two services match, the first of them with   *)
(* a 128-bit uuid, has been answered.                                      *)
TypeReqTwoMatch ==
    /\ IsTypeReq
    /\ att.attribute_type = CHARACTERISTIC_UUID16
    /\ Cardinality(Matching) >= 2
    /\ services[FirstOf(Matching)].uuid.kind = "Uuid128"
    /\ services[FirstOf(Matching)].uuid # services[2].uuid
    /\ result = "Ok"
    /\ Len(WrittenPdus) = 1

(* C7: a ReadByTypeReq whose attribute_type is not 0x2803, or that no      *)
(* service matches, returns Ok and is answered by the error response       *)
(* [0x01, 0x08, start, AttributeNotFound], also when a service lies inside *)
(* [start, end].                                                           *)
TypeReqNotFound ==
    (IsTypeReq /\ (att.attribute_type # CHARACTERISTIC_UUID16 \/ Matching = {})) =>
        /\ result = "Ok"
        /\ WrittenPdus = << <<1, 8>> \o U16LE(att.start) \o <<10>> >>

(* A type request for 0x2802 over a range that holds a service has been    *)
(* answered.                                                               *)
TypeReqOtherUuid ==
    /\ IsTypeReq
    /\ att.attribute_type = OtherUuid16
    /\ Matching # {}
    /\ att.start # att.end
    /\ Len(WrittenPdus) = 1

(* C8: a ReadReq at the characteristics_handle of a service invokes that   *)
(* service's read callback once, no other callback, and writes the read    *)
(* response [0x0b, the buffer the callback returned].                      *)
ReadReqInvokesOwner ==
    (att.op = "ReadReq" /\ Owners # {}) =>
        /\ result = "Ok"
        /\ Len(ReadCalls) = 1
        /\ Owners = {ReadCalls[1].svc}
        /\ WriteCalls = <<>>
        /\ WrittenPdus = << <<11>> \o ReadCalls[1].data >>

(* The read callback of the second service returned a non-empty buffer. *)
ReadReqSecondService ==
    /\ att.op = "ReadReq"
    /\ N >= 2
    /\ att.handle = services[2].characteristics_handle
    /\ Len(ReadCalls) = 1
    /\ ReadCalls[1].data # <<>>
    /\ Len(WrittenPdus) = 1

(* The value bytes of the polled WriteReq: what follows the 4 L2CAP header *)
(* bytes, the opcode and the 2 handle bytes.                               *)
PolledValue == SubSeq(polled.data, 8, Len(polled.data))

(* C9: a WriteReq at the characteristics_handle of a service invokes that  *)
(* service's write callback once with the value bytes of the request, no   *)
(* other callback, and writes the write response [0x13].                   *)
WriteReqInvokesOwner ==
    (att.op = "WriteReq" /\ Owners # {}) =>
        /\ result = "Ok"
        /\ Len(WriteCalls) = 1
        /\ Owners = {WriteCalls[1].svc}
        /\ WriteCalls[1].data = PolledValue
        /\ ReadCalls = <<>>
        /\ WrittenPdus = << <<19>> >>

(* The write callback of the second service received a non-empty value. *)
WriteReqSecondService ==
    /\ att.op = "WriteReq"
    /\ N >= 2
    /\ att.handle = services[2].characteristics_handle
    /\ Len(WriteCalls) = 1
    /\ PolledValue # <<>>
    /\ Len(WrittenPdus) = 1

(* C10: a ReadReq or WriteReq whose handle is no service's                 *)
(* characteristics_handle does not abort: do_work returns Ok, writes an    *)
(* error response with AttributeNotFound and invokes no callback.          *)
UnmatchedHandleNotFound ==
    (att.op \in {"ReadReq", "WriteReq"} /\ Owners = {}) =>
        /\ result = "Ok"
        /\ Len(WrittenPdus) = 1
        /\ WrittenPdus[1][1] = 1
        /\ WrittenPdus[1][5] = 10
        /\ ReadCalls = <<>>
        /\ WriteCalls = <<>>

(* The bytes of every transport write of the last do_work call. *)
WrittenBytes == [k \in 1..Len(Written(trace)) |-> Written(trace)[k].data]

(* The 16-bit word after the packet-type byte of an ACL packet. *)
FlagsWord(b) == b[2] + 256 * b[3]

ResponsesBeginAsTestsExpect ==
    \A k \in 1..Len(WrittenBytes) :
        LET b == WrittenBytes[k]
        IN  /\ Len(b) >= 10
            /\ SubSeq(b, 1, 3) = <<2, 1, 32>>
            /\ b[4] + 256 * b[5] = Len(b) - 5
            /\ b[6] + 256 * b[7] = Len(b) - 9
            /\ SubSeq(b, 8, 9) = <<4, 0>>

(* The polled L2CAP frame declares the length it has. *)
PolledLengthOk ==
    /\ Len(polled.data) >= 4
    /\ polled.data[1] + 256 * polled.data[2] = Len(polled.data) - 4

(* The opcode byte of the polled ATT PDU. *)
PolledOpcode == polled.data[5]

ParseFailed == result \in {"L2capError", "AttError"}

(* The polled frame is a well-formed discovery request, which every        *)
(* service list answers.                                                   *)
PolledDiscovery(p) ==
    /\ p.kind = "AsyncData"
    /\ \E s \in HandleVals, e \in EndVals, u \in RequestUuids :
           p.data \in {encode_l2cap(ReadByGroupTypeReq(s, e, u)),
                       encode_l2cap(ReadByTypeReq(s, e, u))}

(* C13: when the polled payload fails L2CAP or ATT parsing, do_work        *)
(* returns L2capError resp. AttError, writes nothing and invokes no        *)
(* callback; the server can be called again, and the next call handles a   *)
(* well-formed request as usual.                                           *)
ParseErrorsReturned ==
    /\ [](/\ (polled.kind = "AsyncData" /\ ~PolledLengthOk) => result = "L2capError"
          /\ (/\ polled.kind = "AsyncData" /\ PolledLengthOk /\ Len(polled.data) > 4
              /\ PolledOpcode \notin {16, 8, 10, 18}) => result = "AttError"
          /\ ParseFailed => (trace = <<>> /\ att = NoAtt /\ ENABLED DoWork))
    /\ [][(ParseFailed /\ PolledDiscovery(polled')) =>
              (result' = "Ok" /\ att' # NoAtt /\ Len(Written(trace')) = 1)]_vars

(* do_work returned an L2CAP error for a frame with a wrong length. *)
L2capErrorReturned ==
    /\ polled.kind = "AsyncData"
    /\ ~PolledLengthOk
    /\ result = "L2capError"

(* C19: parse_att knows the opcodes 0x10, 0x08, 0x0a and 0x12 only: a PDU  *)
(* with another first byte reaches no handler and do_work returns          *)
(* AttError; each of the four reaches the handler of its own request kind. *)
UnknownOpcodeRejected ==
    (polled.kind = "AsyncData" /\ PolledLengthOk /\ Len(polled.data) > 4) =>
        /\ PolledOpcode \notin {16, 8, 10, 18} =>
               (result = "AttError" /\ att = NoAtt /\ trace = <<>>)
        /\ PolledOpcode = 16 => att.op = "ReadByGroupTypeReq"
        /\ PolledOpcode = 8 => att.op = "ReadByTypeReq"
        /\ PolledOpcode = 10 => att.op = "ReadReq"
        /\ PolledOpcode = 18 => att.op = "WriteReq"

(* do_work returned AttError for a PDU whose first byte is 0x52. *)
UnknownOpcodePolled ==
    /\ polled.kind = "AsyncData"
    /\ PolledLengthOk
    /\ Len(polled.data) > 4
    /\ PolledOpcode = 82
    /\ result = "AttError"

(* C20: a do_work call writes at most one response, and only for a request *)
(* polled in that call; over any sequence of calls the responses written   *)
(* are as many as the requests that were parsed and handled.               *)
HalfDuplex ==
    /\ Len(Written(trace)) <= 1
    /\ Written(trace) # <<>> => (polled.kind = "AsyncData" /\ att # NoAtt)
    /\ tally.responses = tally.handled
    /\ tally.handled <= tally.calls

(* Three calls, two of them answered and one not. *)
ThreeCallsTwoResponses ==
    /\ tally.calls >= 3
    /\ tally.responses = 2
    /\ Written(trace) = <<>>

(* The bytes of the commands invoked so far, as the command tests give     *)
(* them: Reset is 01 03 0c 00, LeSetAdvertiseEnable(true) 01 0a 20 01 01.  *)
RECURSIVE CommandBytes(_)
CommandBytes(log) ==
    IF log = <<>> THEN <<>>
    ELSE (IF Head(log).name = "Reset" THEN <<1, 3, 12, 0>> ELSE <<1, 10, 32, 1, 1>>)
         \o CommandBytes(Tail(log))

(* The last seven bytes the wait loop read: a CommandComplete packet is    *)
(* seven bytes long.                                                       *)
LastConsumed ==
    IF Len(cmd.consumed) < 7 THEN <<>>
    ELSE SubSeq(cmd.consumed, Len(cmd.consumed) - 6, Len(cmd.consumed))

(* A CommandComplete packet for the opcode of the command invoked last. *)
IsOwnCommandComplete(p) ==
    /\ Len(p) = 7
    /\ SubSeq(p, 1, 3) = <<4, 14, 4>>
    /\ p[5] + 256 * p[6] = cmd.opcode

FirstReading == cmd.readings[1]
LastReading == cmd.readings[Len(cmd.readings)]

(* C14: a command invocation writes the command bytes once, before it      *)
(* polls, and succeeds only on a CommandComplete with the opcode of the    *)
(* command and a zero status byte; a CommandComplete with another opcode   *)
(* does not complete it.                                                   *)
CommandCompletesOnOwnOpcode ==
    /\ written = CommandBytes(cmd.log)
    /\ cmd.pc # "idle" => cmd.opcode \in {3075, 8202}
    /\ cmd.outcome = "Ok" => (IsOwnCommandComplete(LastConsumed) /\ LastConsumed[7] = 0)
    /\ (cmd.pc = "done" /\ ~IsOwnCommandComplete(LastConsumed)) => cmd.outcome = "Timeout"

(* Reset succeeded after a CommandComplete for another command was read. *)
ResetSucceededAfterOther ==
    /\ cmd.outcome = "Ok"
    /\ cmd.opcode = 3075
    /\ written = <<1, 3, 12, 0>>
    /\ SubSeq(cmd.consumed, 1, 7) = <<4, 14, 4, 5, 10, 32, 0>>
    /\ LastConsumed = <<4, 14, 4, 5, 3, 12, 0>>

(* C15: a matching CommandComplete with non-zero status byte s makes the   *)
(* command return Failed(s), the command bytes having been written once.   *)
FailedCarriesStatus ==
    /\ cmd.outcome = "Failed" =>
           /\ IsOwnCommandComplete(LastConsumed)
           /\ cmd.status = LastConsumed[7]
           /\ cmd.status # 0
           /\ written = CommandBytes(cmd.log)
    /\ (/\ cmd.pc = "done" /\ IsOwnCommandComplete(LastConsumed) /\ LastConsumed[7] # 0
        /\ cmd.outcome # "Timeout") => (cmd.outcome = "Failed" /\ cmd.status = LastConsumed[7])

(* Reset failed with status 0xff. *)
ResetFailed255 ==
    /\ cmd.outcome = "Failed"
    /\ cmd.status = 255
    /\ LastConsumed = <<4, 14, 4, 5, 3, 12, 255>>
    /\ written = <<1, 3, 12, 0>>

(* C16: without a matching CommandComplete the command returns Timeout at  *)
(* the first clock reading more than 1000 ms after the first one, and not  *)
(* before: readings 0, 100, 2000 give Timeout at the third reading, the    *)
(* command still waiting after 0, 100.                                     *)
TimeoutAtFirstLateReading ==
    /\ cmd.outcome = "Timeout" =>
           /\ LastReading > FirstReading + 1000
           /\ \A k \in 1..(Len(cmd.readings) - 1) : cmd.readings[k] <= FirstReading + 1000
    /\ cmd.pc = "polling" =>
           \A k \in 1..Len(cmd.readings) : cmd.readings[k] <= FirstReading + 1000
    /\ (cmd.pc # "idle" /\ LastReading > FirstReading + 1000) => cmd.outcome = "Timeout"
    /\ cmd.readings = <<0, 100, 2000>> => cmd.outcome = "Timeout"
    /\ cmd.readings = <<0, 100>> => cmd.outcome # "Timeout"

(* The readings 0, 100, 2000 of the timeout test, with nothing to read. *)
TimedOutAtThirdReading ==
    /\ cmd.readings = <<0, 100, 2000>>
    /\ cmd.consumed = <<>>
    /\ cmd.outcome = "Timeout"

(* A step in which the host polls: it writes nothing and the bytes to read *)
(* do not grow.                                                            *)
PollStep == written' = written /\ Len(to_read') <= Len(to_read)

(* C17: poll does not block.  With no byte to read it returns nothing and  *)
(* consumes nothing; a first byte 0x04 gives an Event and consumes the     *)
(* three header bytes and the declared parameters; a first byte 0x02 gives *)
(* AsyncData whose payload is the declared-length bytes after the 5-byte   *)
(* ACL header, and consumes exactly that packet.                           *)
PollClassifies ==
    /\ [](ENABLED (Poll \/ Wait))
    /\ [][PollStep =>
             /\ to_read = <<>> => (pollres'.kind = "None" /\ to_read' = to_read)
             /\ (to_read # <<>> /\ to_read[1] = 4) =>
                    /\ pollres'.kind = "Event"
                    /\ to_read' = SubSeq(to_read, 4 + to_read[3], Len(to_read))
                    /\ to_read[2] = 14 =>
                           /\ pollres'.event.type = "CommandComplete"
                           /\ pollres'.event.num_packets = to_read[4]
                           /\ pollres'.event.opcode = to_read[5] + 256 * to_read[6]
                           /\ pollres'.event.data = SubSeq(to_read, 7, 3 + to_read[3])
                    /\ to_read[2] = 5 => pollres'.event.type = "DisconnectComplete"
             /\ (to_read # <<>> /\ to_read[1] = 2) =>
                    /\ pollres'.kind = "AsyncData"
                    /\ pollres'.data
                         = SubSeq(to_read, 6, 5 + to_read[4] + 256 * to_read[5])
                    /\ to_read' = SubSeq(to_read, 6 + to_read[4] + 256 * to_read[5],
                                         Len(to_read))]_vars

(* poll returned the ACL packet of seven payload bytes and left the packet *)
(* behind it unread.                                                       *)
AsyncDataPolled ==
    /\ pollres.kind = "AsyncData"
    /\ pollres.data = <<3, 0, 4, 0, 10, 3, 0>>
    /\ to_read # <<>>

(* C18: the ACL and L2CAP codecs are mutually inverse on well-formed       *)
(* input.  Parsing what encode_l2cap and encode_acl_packet produced gives  *)
(* back the handle, the flags and the payload; encoding a parsed           *)
(* well-formed frame gives back its bytes; a frame whose declared length   *)
(* disagrees with the bytes present, or whose leading byte is not 0x02,    *)
(* is not parsed.  The encode test fixes the bytes of one frame.           *)
CodecsInverse ==
    /\ (codec.stage = "parsed" /\ codec.origin = "host" /\ codec.damage = "none") =>
           /\ ~codec.acl.err /\ ~codec.l2cap.err
           /\ codec.acl.handle = codec.handle
           /\ codec.acl.boundary_flag = codec.boundary_flag
           /\ codec.acl.bc_flag = codec.bc_flag
           /\ codec.l2cap.payload = codec.payload
    /\ (codec.stage = "parsed" /\ codec.origin = "wire" /\ codec.damage = "none") =>
           /\ ~codec.acl.err /\ ~codec.l2cap.err
           /\ codec.acl.handle = 0
           /\ codec.acl.boundary_flag = FirstAutoFlushable
           /\ codec.l2cap.payload = SubSeq(codec.bytes, 10, Len(codec.bytes))
    /\ (codec.stage = "parsed" /\ codec.damage # "none") =>
           (codec.acl.err \/ codec.l2cap.err)
    /\ codec.stage = "reencoded" => codec.out = codec.bytes
    /\ (/\ codec.origin = "host" /\ codec.damage = "none"
        /\ codec.handle = 0 /\ codec.boundary_flag = FirstAutoFlushable
        /\ codec.bc_flag = NoBroadcast /\ codec.payload = GroupTypeResponse) =>
           codec.bytes = <<2, 0, 32, 18, 0, 14, 0, 4, 0>> \o GroupTypeResponse

(* A frame received from the controller was parsed and encoded again. *)
WireFrameReencoded ==
    /\ codec.stage = "reencoded"
    /\ codec.origin = "wire"
    /\ codec.l2cap.payload = <<16, 1, 0, 255, 255, 0, 40>>

(* A step of do_work on the connector: one more call is counted. *)
ServeStep == constructed /\ tally'.calls = tally.calls + 1

(* C21: a do_work call polls the controller exactly once; when the poll    *)
(* returns nothing or an Event, do_work returns Ok, writes nothing to the  *)
(* transport, invokes no callback and leaves the handle table unchanged.   *)
PollsOnceAndIgnoresEvents ==
    [][ServeStep =>
          /\ to_read = <<>> => to_read' = <<>>
          /\ to_read # <<>> => PacketCount(to_read') = PacketCount(to_read) - 1
          /\ (to_read = <<>> \/ to_read[1] = 4) =>
                 /\ result' = "Ok"
                 /\ written' = written
                 /\ trace' = <<>>
                 /\ services' = services]_vars

(* do_work polled an event and returned, the request behind it unread. *)
EventPolledRequestWaiting ==
    /\ polled = PollEvent
    /\ result = "Ok"
    /\ trace = <<>>
    /\ written = <<>>
    /\ to_read # <<>>
    /\ to_read[1] = ACL_PACKET_TYPE

(* C22: handles are assigned once, at construction.  No do_work call, for  *)
(* any request kind or error outcome, changes the start_handle, the        *)
(* characteristics_handle or the end_handle of a service, nor its uuid or  *)
(* its permissions; construction itself leaves uuid and permissions alone. *)
HandleTableFixed ==
    [][/\ constructed => services' = services
       /\ Len(services') = Len(services)
       /\ \A i \in 1..Len(services) :
              /\ services'[i].uuid = services[i].uuid
              /\ services'[i].permissions = services[i].permissions]_vars

(* Two services keep their handles after a PDU with an unknown opcode. *)
HandlesKeptAfterAttError ==
    /\ result = "AttError"
    /\ N = 2
    /\ services[1].start_handle = 1 /\ services[1].end_handle = 3
    /\ services[2].start_handle = 4 /\ services[2].characteristics_handle = 6

(* The positions of the callbacks and of the transport writes in the call. *)
CallbackAt == {k \in 1..Len(trace) : trace[k].ev \in {"read", "write"}}
TxAt == {k \in 1..Len(trace) : trace[k].ev = "tx"}

(* C23: within one do_work call the callback runs before the response is   *)
(* sent.  For a WriteReq the write callback has returned, and for a        *)
(* ReadReq the read callback has returned, before the first byte of the    *)
(* response is written to the transport.                                   *)
CallbackBeforeResponse ==
    /\ \A c \in CallbackAt, w \in TxAt : c < w
    /\ (att.op \in {"ReadReq", "WriteReq"} /\ result = "Ok") =>
           /\ Len(trace) = 2
           /\ trace[1].ev = (IF att.op = "ReadReq" THEN "read" ELSE "write")
           /\ trace[2].ev = "tx"
           /\ trace[2].data[1] = ACL_PACKET_TYPE

(* A write was handed to the callback and then acknowledged. *)
WriteThenAcknowledged ==
    /\ att.op = "WriteReq"
    /\ result = "Ok"
    /\ trace[1] = WriteCall(1, <<171>>)
    /\ trace[2].ev = "tx"
    /\ AttOf(trace[2].data) = <<19>>

(* C24: discovery has no side effect on services.  Handling a              *)
(* ReadByGroupTypeReq or a ReadByTypeReq invokes no callback of any        *)
(* service, a ReadReq invokes no write callback and a WriteReq no read     *)
(* callback.                                                               *)
DiscoveryInvokesNoCallback ==
    /\ (IsGroupReq \/ IsTypeReq) => (ReadCalls = <<>> /\ WriteCalls = <<>>)
    /\ att.op = "ReadReq" => WriteCalls = <<>>
    /\ att.op = "WriteReq" => ReadCalls = <<>>
    /\ att = NoAtt => (ReadCalls = <<>> /\ WriteCalls = <<>>)

(* A characteristic declaration was reported and no callback ran. *)
CharacteristicReportedSilently ==
    /\ IsTypeReq
    /\ att.attribute_type = CHARACTERISTIC_UUID16
    /\ Matching # {}
    /\ Len(trace) = 1
    /\ trace[1].ev = "tx"
    /\ AttOf(trace[1].data)[1] = ATT_READ_BY_TYPE_RESPONSE_OPCODE

(* C25: every command invocation terminates with exactly one of success,   *)
(* Failed(status) or Timeout.  With a clock whose readings come to exceed  *)
(* the first reading by more than 1000 ms the wait loop does not run for   *)
(* ever, and nothing ends the wait but one of the three outcomes.          *)
CommandTerminates ==
    /\ [](cmd.pc = "done" => cmd.outcome \in {"Ok", "Failed", "Timeout"})
    /\ [](cmd.pc = "polling" => cmd.outcome = "none")
    /\ [][cmd.pc = "polling" =>
              /\ cmd'.pc \in {"polling", "done"}
              /\ cmd'.opcode = cmd.opcode
              /\ cmd'.log = cmd.log
              /\ written' = written]_vars
    /\ (cmd.pc = "polling") ~> (cmd.pc = "done")

(* A command timed out although events kept arriving while it waited. *)
TimedOutDespiteEvents ==
    /\ cmd.pc = "done"
    /\ cmd.outcome = "Timeout"
    /\ Len(cmd.consumed) >= 7
    /\ Len(cmd.readings) >= 3

(* C26: framing a response never overflows a buffer.  For a ReadReq whose  *)
(* read callback returns a buffer of any length up to the capacity of 128  *)
(* bytes, the ATT opcode byte, the 4-byte L2CAP prefix and the 5-byte ACL  *)
(* header still fit, and the full response is written.                     *)
ReadResponseFits ==
    codec.origin = "callback" =>
        /\ codec.stage = "sent"
        /\ Len(codec.out) = Len(codec.payload) + 10
        /\ SubSeq(codec.out, 11, Len(codec.out)) = codec.payload

(* C8, for every buffer a read callback can return: the read response      *)
(* written for a ReadReq at a registered handle is 0x0b followed by        *)
(* exactly the buffer the callback returned.                               *)
ReadResponseCarriesAnswer ==
    codec.origin = "callback" =>
        /\ codec.stage = "sent"
        /\ AttOf(codec.out) = <<ATT_READ_RESPONSE_OPCODE>> \o codec.payload

====
